---- MODULE Spec2Model ----
(***************************************************************************)
(* Lease-based leader election of nest-typeorm-leader-election:            *)
(* LeaderElectorCore (src/src/core/leader-elector.core.ts) run by several  *)
(* instances against one PostgreSQL table leader_lease.                    *)
(*                                                                         *)
(* Time is counted in seconds.  Store round trips take no model time: the  *)
(* clock advances only when no live instance has a due timer or a store    *)
(* operation in flight, so every live instance runs its attempts at the    *)
(* intervals it scheduled.                                                 *)
(***************************************************************************)
EXTENDS Integers, FiniteSets, Sequences, TLC

\* ------------------------------------------------------------------ bounds
MaxTime == 10
MaxFailures == 1

\* ----------------------------------------------- configuration (seconds)
baseLeaseDuration == 2
baseRenewalInterval == 1
baseCleanInterval == 3
jitterRange == 0
GraceSeconds == 5

Instances == {"a", "b"}
\* config.lockId ?? 1
DefaultLockId == 1
NoTimer == -1

VARIABLES
  now,           \* the store's clock, NOW()
  failures,      \* store operations that have failed so far
  rows,          \* table leader_lease: the committed rows
  txn,           \* per instance: the uncommitted write of its open transaction
  LOCK_ID,       \* per instance: config.lockId
  pc,            \* per instance: where initialize()/tryAcquireLease() is suspended,
                 \* "failed" once initialize() has thrown, "dead" once the process is gone
  isLeader,      \* per instance: this.isLeader
  renewalTimer,  \* per instance: this.renewalTimer, while the timeout it names is pending
  timers,        \* per instance: deadlines of the pending setTimeout callbacks
  cleanupTimer,  \* per instance: next firing of the setInterval of startCleanupJob
  cleanupPeriod, \* per instance: the period that setInterval was given
  inFlight,      \* per instance: tryAcquireLease calls that have not returned
  extRel,        \* per instance: a release() called from outside awaits its delete
  hist           \* per instance: what the attempt in flight has met so far

vars == <<now, failures, rows, txn, LOCK_ID, pc, isLeader, renewalTimer,
          timers, cleanupTimer, cleanupPeriod, inFlight, extRel, hist>>

\* --------------------------------------------------------------- helpers

\* getJitter(): Math.random() * jitterRange - jitterRange / 2
Jitters == (0 - (jitterRange \div 2))..(jitterRange \div 2)

\* A store operation succeeds, or fails while failures remain in the budget.
Outcomes == IF failures < MaxFailures THEN {TRUE, FALSE} ELSE {TRUE}

Failed(ok) == IF ok THEN failures ELSE failures + 1

\* wasLeader: isLeader when the attempt began; failed: a store operation of
\* the attempt has failed; saw: what its upsert met in the table.
NoHist == [wasLeader |-> FALSE, failed |-> FALSE, saw |-> "none"]

\* The committed row(s) of lock identifier id.
\* A table read without the id in the where clause.
RowsOfAnyId(id) == rows

RowsOf(id) == {r \in rows : r.id = id}

\* A store in which a write never waits for the open transaction of another
\* session.
NoRowLock(i, id) == FALSE

\* Row (id, leaderId) is locked by the open transaction of another session
\* than i's: that transaction inserted or updated a row with this primary key.
LockedByOther(i, id) ==
  \E j \in Instances \ {i} : \E w \in txn[j] : w.row.id = id

Init ==
  /\ now = 0
  /\ failures = 0
  /\ rows = {}
  /\ txn = [i \in Instances |-> {}]
  /\ LOCK_ID = [i \in Instances |-> DefaultLockId]
  /\ pc = [i \in Instances |-> "createTable"]
  /\ isLeader = [i \in Instances |-> FALSE]
  /\ renewalTimer = [i \in Instances |-> NoTimer]
  /\ timers = [i \in Instances |-> {}]
  /\ cleanupTimer = [i \in Instances |-> NoTimer]
  /\ cleanupPeriod = [i \in Instances |-> 0]
  /\ inFlight = [i \in Instances |-> 0]
  /\ extRel = [i \in Instances |-> "idle"]
  /\ hist = [i \in Instances |-> NoHist]

\* ------------------------------------------------------- the lease store

\* A reclaimer without the grace period: where expiresAt < NOW().
ReclaimableNoGrace(r) == r.expiresAt < now

\* cleanupExpiredLeases: .where("expiresAt < NOW() - INTERVAL '5 seconds'")
Reclaimable(r) == r.expiresAt < now - GraceSeconds

\* The reclaimer's DELETE waits for a row it matches that an open
\* transaction has updated.
CleanupBlocked ==
  \E r \in rows : Reclaimable(r) /\
    \E j \in Instances : \E w \in txn[j] : w.kind = "update" /\ w.row.id = r.id

AfterCleanup == {r \in rows : ~Reclaimable(r)}

\* release: delete({ id: this.LOCK_ID, leaderId: this.instanceId }), issued on
\* the repository's own connection, outside the attempt's transaction.
ReleaseMatches(i, r) == r.id = LOCK_ID[i] /\ r.leaderId = i

ReleaseBlocked(i) ==
  \E r \in rows : ReleaseMatches(i, r) /\
    \E j \in Instances : \E w \in txn[j] : w.kind = "update" /\ w.row.id = r.id

\* A delete scoped by the lock identifier alone.
AfterReleaseById(i) == {r \in rows : r.id # LOCK_ID[i]}

AfterRelease(i) == {r \in rows : ~ReleaseMatches(i, r)}

\* The row given to upsert: expiresAt is NOW() + INTERVAL leaseDuration,
\* created_at is the column default NOW().
NewLease(i) ==
  [id |-> LOCK_ID[i], leaderId |-> i,
   expiresAt |-> now + baseLeaseDuration, createdAt |-> now]

\* CHECK (expires_at > created_at)
CheckConstraint(r) == r.expiresAt > r.createdAt

\* An upsert whose update writes expiresAt = NOW(), without the lease
\* duration.
UpsertNoExtension(i) ==
  LET mine == {r \in RowsOf(LOCK_ID[i]) : r.leaderId = i}
      others == RowsOf(LOCK_ID[i]) \ mine
  IN  IF mine # {}
      THEN LET old == CHOOSE r \in mine : TRUE
               new == [old EXCEPT !.expiresAt = now]
           IN  IF CheckConstraint(new)
               THEN [status |-> "update", row |-> new]
               ELSE [status |-> "check", row |-> new]
      ELSE IF others # {}
      THEN [status |-> "pkey", row |-> NewLease(i)]
      ELSE IF CheckConstraint(NewLease(i))
      THEN [status |-> "insert", row |-> NewLease(i)]
      ELSE [status |-> "check", row |-> NewLease(i)]

\* An upsert that conflicts on id alone: the row of another instance is
\* rewritten to this one.
UpsertTakeover(i) ==
  IF RowsOf(LOCK_ID[i]) # {}
  THEN [status |-> "update", row |-> NewLease(i)]
  ELSE [status |-> "insert", row |-> NewLease(i)]

\* upsert(..., { conflictPaths: ["id", "leaderId"] }):
\* INSERT ... ON CONFLICT (id, leader_id) DO UPDATE SET expires_at = ...
\* A row of the same id and leaderId is updated; a row of the same id and
\* another leaderId is no conflict on (id, leader_id), so the insert goes on
\* and violates the primary key (23505 on leader_lease_pkey), expired or not.
Upsert(i) ==
  LET mine == {r \in RowsOf(LOCK_ID[i]) : r.leaderId = i}
      others == RowsOf(LOCK_ID[i]) \ mine
  IN  IF mine # {}
      THEN LET old == CHOOSE r \in mine : TRUE
               new == [old EXCEPT !.expiresAt = now + baseLeaseDuration]
           IN  IF CheckConstraint(new)
               THEN [status |-> "update", row |-> new]
               ELSE [status |-> "check", row |-> new]
      ELSE IF others # {}
      THEN [status |-> "pkey", row |-> NewLease(i)]
      ELSE IF CheckConstraint(NewLease(i))
      THEN [status |-> "insert", row |-> NewLease(i)]
      ELSE [status |-> "check", row |-> NewLease(i)]

\* What the conditional write met in the table.
Saw(i) ==
  LET cur == RowsOf(LOCK_ID[i])
  IN  IF cur = {} THEN "absent"
      ELSE IF \E r \in cur : r.leaderId = i THEN "mine"
      ELSE IF \E r \in cur : r.expiresAt < now THEN "otherExpired"
      ELSE "otherValid"

\* findOne(LeaderLease, { where: { id } }) inside the transaction: its own
\* uncommitted write, else the committed row.
FindOne(i) ==
  IF \E w \in txn[i] : w.row.id = LOCK_ID[i]
  THEN {w.row : w \in {x \in txn[i] : x.row.id = LOCK_ID[i]}}
  ELSE RowsOf(LOCK_ID[i])

\* commitTransaction: the write becomes the committed row.
Committed(i) ==
  LET new == {w.row : w \in txn[i]}
  IN  {r \in rows : ~\E n \in new : n.id = r.id /\ n.leaderId = r.leaderId} \cup new

\* ------------------------------------------------------------ timers

\* clearTimeout(this.renewalTimer)
Cleared(i) == timers[i] \ {renewalTimer[i]}

\* tryAcquireLeaseWithJitter: clear the timer the handle names, arm a new one.
TryAcquireLeaseWithJitter(i) ==
  \E j \in Jitters :
    LET interval == baseRenewalInterval + j
    IN  /\ timers' = [timers EXCEPT ![i] = Cleared(i) \cup {now + interval}]
        /\ renewalTimer' = [renewalTimer EXCEPT ![i] = now + interval]

\* tryAcquireLease returns or throws: the attempt is over.
AttemptEnds(i) ==
  /\ pc' = [pc EXCEPT ![i] = "idle"]
  /\ inFlight' = [inFlight EXCEPT ![i] = @ - 1]
  /\ hist' = [hist EXCEPT ![i] = NoHist]

\* ------------------------------------------------------------ initialize

\* initialize: await this.createLockTableIfNotExists()
CreateLockTableIfNotExists(i) ==
  /\ pc[i] = "createTable"
  /\ \E ok \in Outcomes :
       /\ failures' = Failed(ok)
       /\ pc' = [pc EXCEPT ![i] = IF ok THEN "initCleanup" ELSE "failed"]
  /\ UNCHANGED <<now, rows, txn, LOCK_ID, isLeader, renewalTimer, timers,
                 cleanupTimer, cleanupPeriod, inFlight, extRel, hist>>

\* initialize: await this.startCleanupJob() (the first cleanupExpiredLeases,
\* its failure caught; then setInterval), then tryAcquireLeaseWithJitter().
StartCleanupJob(i) ==
  /\ pc[i] = "initCleanup"
  /\ \E ok \in Outcomes :
       /\ ok => ~CleanupBlocked
       /\ failures' = Failed(ok)
       /\ rows' = IF ok THEN AfterCleanup ELSE rows
  /\ \E j \in Jitters :
       /\ cleanupPeriod' = [cleanupPeriod EXCEPT ![i] = baseCleanInterval + j]
       /\ cleanupTimer' = [cleanupTimer EXCEPT ![i] = now + baseCleanInterval + j]
  /\ TryAcquireLeaseWithJitter(i)
  /\ pc' = [pc EXCEPT ![i] = "idle"]
  /\ UNCHANGED <<now, txn, LOCK_ID, isLeader, inFlight, extRel, hist>>

\* setInterval(() => this.cleanupExpiredLeases(), ...) fires.
CleanupExpiredLeases(i) ==
  /\ pc[i] \notin {"createTable", "initCleanup", "failed", "dead"}
  /\ cleanupTimer[i] # NoTimer /\ cleanupTimer[i] <= now
  /\ \E ok \in Outcomes :
       /\ ok => ~CleanupBlocked
       /\ failures' = Failed(ok)
       /\ rows' = IF ok THEN AfterCleanup ELSE rows
  /\ cleanupTimer' = [cleanupTimer EXCEPT ![i] = @ + cleanupPeriod[i]]
  /\ UNCHANGED <<now, txn, LOCK_ID, pc, isLeader, renewalTimer, timers,
                 cleanupPeriod, inFlight, extRel, hist>>

\* ------------------------------------------------------- tryAcquireLease

\* A fixed-rate timer in place of the single-shot one: the callback is armed
\* again when it fires, not when the attempt has ended.
RenewalTimerFixedRate(i) ==
  /\ pc[i] \notin {"failed", "dead"}
  /\ \E d \in timers[i] :
       /\ d <= now
       /\ timers' = [timers EXCEPT ![i] = (@ \ {d}) \cup {now + baseRenewalInterval}]
       /\ renewalTimer' = [renewalTimer EXCEPT ![i] = now + baseRenewalInterval]
  /\ inFlight' = [inFlight EXCEPT ![i] = @ + 1]
  /\ IF pc[i] = "idle"
     THEN /\ pc' = [pc EXCEPT ![i] = "connect"]
          /\ hist' = [hist EXCEPT ![i] = [NoHist EXCEPT !.wasLeader = isLeader[i]]]
     ELSE UNCHANGED <<pc, hist>>
  /\ UNCHANGED <<now, failures, rows, txn, LOCK_ID, isLeader, cleanupTimer,
                 cleanupPeriod, extRel>>

\* The renewal timeout fires: tryAcquireLease() is called and runs up to
\* await queryRunner.connect().
RenewalTimerFires(i) ==
  /\ pc[i] \notin {"failed", "dead"}
  /\ \E d \in timers[i] :
       /\ d <= now
       /\ timers' = [timers EXCEPT ![i] = @ \ {d}]
       /\ renewalTimer' = [renewalTimer EXCEPT ![i] = IF @ = d THEN NoTimer ELSE @]
  /\ inFlight' = [inFlight EXCEPT ![i] = @ + 1]
  /\ IF pc[i] = "idle"
     THEN /\ pc' = [pc EXCEPT ![i] = "connect"]
          /\ hist' = [hist EXCEPT ![i] = [NoHist EXCEPT !.wasLeader = isLeader[i]]]
     ELSE UNCHANGED <<pc, hist>>
  /\ UNCHANGED <<now, failures, rows, txn, LOCK_ID, isLeader, cleanupTimer,
                 cleanupPeriod, extRel>>

\* await queryRunner.connect(), before the try block: a failure leaves
\* tryAcquireLease as a rejected promise nobody handles.
Connect(i) ==
  /\ pc[i] = "connect"
  /\ \E ok \in Outcomes :
       /\ failures' = Failed(ok)
       /\ IF ok
          THEN /\ pc' = [pc EXCEPT ![i] = "startTransaction"]
               /\ UNCHANGED <<inFlight, hist>>
          ELSE AttemptEnds(i)
  /\ UNCHANGED <<now, rows, txn, LOCK_ID, isLeader, renewalTimer, timers,
                 cleanupTimer, cleanupPeriod, extRel>>

\* await queryRunner.startTransaction(), before the try block as well.
StartTransaction(i) ==
  /\ pc[i] = "startTransaction"
  /\ \E ok \in Outcomes :
       /\ failures' = Failed(ok)
       /\ IF ok
          THEN /\ pc' = [pc EXCEPT ![i] = "upsert"]
               /\ UNCHANGED <<inFlight, hist>>
          ELSE AttemptEnds(i)
  /\ UNCHANGED <<now, rows, txn, LOCK_ID, isLeader, renewalTimer, timers,
                 cleanupTimer, cleanupPeriod, extRel>>

\* try: await queryRunner.manager.upsert(...).  The statement waits while
\* another open transaction holds a row of this id.
UpsertLease(i) ==
  /\ pc[i] = "upsert"
  /\ \E ok \in Outcomes :
       /\ ok => ~LockedByOther(i, LOCK_ID[i])
       /\ failures' = Failed(ok)
       /\ IF ok
          THEN LET u == Upsert(i)
               IN  /\ hist' = [hist EXCEPT ![i].saw = Saw(i)]
                   /\ IF u.status \in {"insert", "update"}
                      THEN /\ txn' = [txn EXCEPT ![i] = {[kind |-> u.status, row |-> u.row]}]
                           /\ pc' = [pc EXCEPT ![i] = "findOne"]
                      ELSE /\ txn' = txn
                           /\ pc' = [pc EXCEPT ![i] = "rollback"]
          ELSE /\ hist' = [hist EXCEPT ![i].failed = TRUE]
               /\ txn' = txn
               /\ pc' = [pc EXCEPT ![i] = "rollback"]
  /\ UNCHANGED <<now, rows, LOCK_ID, isLeader, renewalTimer, timers,
                 cleanupTimer, cleanupPeriod, inFlight, extRel>>

\* try: currentLease = await findOne(...); then, without suspending,
\* handleLeadershipAcquired() or the start of release().
ReadBack(i) ==
  /\ pc[i] = "findOne"
  /\ \E ok \in Outcomes :
       /\ failures' = Failed(ok)
       /\ IF ~ok
          THEN /\ hist' = [hist EXCEPT ![i].failed = TRUE]
               /\ pc' = [pc EXCEPT ![i] = "rollback"]
               /\ UNCHANGED <<isLeader, renewalTimer, timers>>
          ELSE /\ hist' = hist
               /\ IF \E r \in FindOne(i) : r.leaderId = i
                  THEN \* handleLeadershipAcquired
                       /\ isLeader' = [isLeader EXCEPT ![i] = TRUE]
                       /\ pc' = [pc EXCEPT ![i] = "commit"]
                       /\ UNCHANGED <<renewalTimer, timers>>
                  ELSE IF isLeader[i]
                  THEN \* release(), up to await delete
                       /\ isLeader' = [isLeader EXCEPT ![i] = FALSE]
                       /\ timers' = [timers EXCEPT ![i] = Cleared(i)]
                       /\ renewalTimer' = [renewalTimer EXCEPT ![i] = NoTimer]
                       /\ pc' = [pc EXCEPT ![i] = "tryRelease"]
                  ELSE /\ pc' = [pc EXCEPT ![i] = "commit"]
                       /\ UNCHANGED <<isLeader, renewalTimer, timers>>
  /\ UNCHANGED <<now, rows, txn, LOCK_ID, cleanupTimer, cleanupPeriod,
                 inFlight, extRel>>

\* try: await queryRunner.commitTransaction()
CommitTransaction(i) ==
  /\ pc[i] = "commit"
  /\ \E ok \in Outcomes :
       /\ failures' = Failed(ok)
       /\ IF ok
          THEN /\ rows' = Committed(i)
               /\ txn' = [txn EXCEPT ![i] = {}]
               /\ pc' = [pc EXCEPT ![i] = "finally"]
               /\ hist' = hist
          ELSE /\ UNCHANGED <<rows, txn>>
               /\ pc' = [pc EXCEPT ![i] = "rollback"]
               /\ hist' = [hist EXCEPT ![i].failed = TRUE]
  /\ UNCHANGED <<now, LOCK_ID, isLeader, renewalTimer, timers, cleanupTimer,
                 cleanupPeriod, inFlight, extRel>>

\* catch: await queryRunner.rollbackTransaction(); the log; then release()
\* up to await delete.  A rollback that throws leaves the catch block at once.
RollbackTransaction(i) ==
  /\ pc[i] = "rollback"
  /\ txn' = [txn EXCEPT ![i] = {}]
  /\ \E ok \in Outcomes :
       /\ failures' = Failed(ok)
       /\ IF ~ok
          THEN /\ hist' = [hist EXCEPT ![i].failed = TRUE]
               /\ pc' = [pc EXCEPT ![i] = "finallyThrow"]
               /\ UNCHANGED <<isLeader, renewalTimer, timers>>
          ELSE /\ hist' = hist
               /\ IF isLeader[i]
                  THEN /\ isLeader' = [isLeader EXCEPT ![i] = FALSE]
                       /\ timers' = [timers EXCEPT ![i] = Cleared(i)]
                       /\ renewalTimer' = [renewalTimer EXCEPT ![i] = NoTimer]
                       /\ pc' = [pc EXCEPT ![i] = "catchRelease"]
                  ELSE /\ pc' = [pc EXCEPT ![i] = "finally"]
                       /\ UNCHANGED <<isLeader, renewalTimer, timers>>
  /\ UNCHANGED <<now, rows, LOCK_ID, cleanupTimer, cleanupPeriod, inFlight,
                 extRel>>

\* release() called by tryAcquireLease: await this.leaderLeaseRepository.delete(...)
ReleaseDelete(i) ==
  /\ pc[i] \in {"tryRelease", "catchRelease"}
  /\ \E ok \in Outcomes :
       /\ ok => ~ReleaseBlocked(i)
       /\ failures' = Failed(ok)
       /\ rows' = IF ok THEN AfterRelease(i) ELSE rows
       /\ hist' = [hist EXCEPT ![i].failed = @ \/ ~ok]
       /\ pc' = [pc EXCEPT ![i] =
                   IF pc[i] = "tryRelease"
                   THEN (IF ok THEN "commit" ELSE "rollback")
                   ELSE (IF ok THEN "finally" ELSE "finallyThrow")]
  /\ UNCHANGED <<now, txn, LOCK_ID, isLeader, renewalTimer, timers,
                 cleanupTimer, cleanupPeriod, inFlight, extRel>>

\* finally: await queryRunner.release(); this.tryAcquireLeaseWithJitter().
\* From "finallyThrow" the error of the catch block is thrown on afterwards;
\* a queryRunner.release() that fails throws before the timer is armed.
QueryRunnerRelease(i) ==
  /\ pc[i] \in {"finally", "finallyThrow"}
  /\ \E ok \in Outcomes :
       /\ failures' = Failed(ok)
       /\ IF ok
          THEN /\ TryAcquireLeaseWithJitter(i)
               /\ AttemptEnds(i)
          ELSE /\ UNCHANGED <<renewalTimer, timers>>
               /\ AttemptEnds(i)
  /\ UNCHANGED <<now, rows, txn, LOCK_ID, isLeader, cleanupTimer,
                 cleanupPeriod, extRel>>

\* ------------------------------------------------- release() from outside

\* release() without its clearTimeout: the pending renewal stays armed.
ReleaseKeepsTimer(i) ==
  /\ pc[i] # "dead"
  /\ extRel[i] = "idle"
  /\ IF isLeader[i]
     THEN /\ isLeader' = [isLeader EXCEPT ![i] = FALSE]
          /\ extRel' = [extRel EXCEPT ![i] = "deleting"]
          /\ UNCHANGED <<timers, renewalTimer>>
     ELSE UNCHANGED <<isLeader, timers, renewalTimer, extRel>>
  /\ UNCHANGED <<now, failures, rows, txn, LOCK_ID, pc, cleanupTimer,
                 cleanupPeriod, inFlight, hist>>

\* public release(), called by the host (or shutdown()): up to await delete.
Release(i) ==
  /\ pc[i] # "dead"
  /\ extRel[i] = "idle"
  /\ IF isLeader[i]
     THEN /\ isLeader' = [isLeader EXCEPT ![i] = FALSE]
          /\ timers' = [timers EXCEPT ![i] = Cleared(i)]
          /\ renewalTimer' = [renewalTimer EXCEPT ![i] = NoTimer]
          /\ extRel' = [extRel EXCEPT ![i] = "deleting"]
     ELSE UNCHANGED <<isLeader, timers, renewalTimer, extRel>>
  /\ UNCHANGED <<now, failures, rows, txn, LOCK_ID, pc, cleanupTimer,
                 cleanupPeriod, inFlight, hist>>

\* The delete of that release() completes; it waits for a transaction that
\* has updated the row.
ReleaseDeleted(i) ==
  /\ pc[i] # "dead"
  /\ extRel[i] = "deleting"
  /\ \E ok \in Outcomes :
       /\ ok => ~ReleaseBlocked(i)
       /\ failures' = Failed(ok)
       /\ rows' = IF ok THEN AfterRelease(i) ELSE rows
  /\ extRel' = [extRel EXCEPT ![i] = "idle"]
  /\ UNCHANGED <<now, txn, LOCK_ID, pc, isLeader, renewalTimer, timers,
                 cleanupTimer, cleanupPeriod, inFlight, hist>>

\* ---------------------------------------------------------- shutdown()

\* release() without its test of isLeader: the flag is cleared, the timer
\* cancelled and the delete issued whoever calls.
ShutdownUnguarded(i) ==
  /\ pc[i] \notin {"createTable", "initCleanup", "failed", "dead"}
  /\ extRel[i] \in {"idle", "down"}
  /\ isLeader' = [isLeader EXCEPT ![i] = FALSE]
  /\ timers' = [timers EXCEPT ![i] = Cleared(i)]
  /\ renewalTimer' = [renewalTimer EXCEPT ![i] = NoTimer]
  /\ extRel' = [extRel EXCEPT ![i] = "shutting"]
  /\ UNCHANGED <<now, failures, rows, txn, LOCK_ID, pc, cleanupTimer,
                 cleanupPeriod, inFlight, hist>>

\* public shutdown(): await this.release(), up to await delete.  extRel keeps
\* what became of the call: "shutting" while the delete is awaited, "down"
\* once shutdown() has returned after its delete, "noop" once it has returned
\* because release() found isLeader false.  It may be called again once it
\* has returned after a delete.
Shutdown(i) ==
  /\ pc[i] \notin {"createTable", "initCleanup", "failed", "dead"}
  /\ extRel[i] \in {"idle", "down"}
  /\ IF isLeader[i]
     THEN /\ isLeader' = [isLeader EXCEPT ![i] = FALSE]
          /\ timers' = [timers EXCEPT ![i] = Cleared(i)]
          /\ renewalTimer' = [renewalTimer EXCEPT ![i] = NoTimer]
          /\ extRel' = [extRel EXCEPT ![i] = "shutting"]
     ELSE /\ extRel' = [extRel EXCEPT ![i] = "noop"]
          /\ UNCHANGED <<isLeader, timers, renewalTimer>>
  /\ UNCHANGED <<now, failures, rows, txn, LOCK_ID, pc, cleanupTimer,
                 cleanupPeriod, inFlight, hist>>

\* The delete of shutdown()'s release() completes and shutdown() returns; a
\* delete that fails rejects shutdown().
ShutdownDeleted(i) ==
  /\ pc[i] # "dead"
  /\ extRel[i] = "shutting"
  /\ \E ok \in Outcomes :
       /\ ok => ~ReleaseBlocked(i)
       /\ failures' = Failed(ok)
       /\ rows' = IF ok THEN AfterRelease(i) ELSE rows
       /\ extRel' = [extRel EXCEPT ![i] = IF ok THEN "down" ELSE "idle"]
  /\ UNCHANGED <<now, txn, LOCK_ID, pc, isLeader, renewalTimer, timers,
                 cleanupTimer, cleanupPeriod, inFlight, hist>>

\* ------------------------------------------------------------ environment

\* The process dies: its memory is gone, the store aborts its transaction.
Crash(i) ==
  /\ pc[i] # "dead"
  /\ pc' = [pc EXCEPT ![i] = "dead"]
  /\ txn' = [txn EXCEPT ![i] = {}]
  /\ isLeader' = [isLeader EXCEPT ![i] = FALSE]
  /\ renewalTimer' = [renewalTimer EXCEPT ![i] = NoTimer]
  /\ timers' = [timers EXCEPT ![i] = {}]
  /\ cleanupTimer' = [cleanupTimer EXCEPT ![i] = NoTimer]
  /\ cleanupPeriod' = [cleanupPeriod EXCEPT ![i] = 0]
  /\ inFlight' = [inFlight EXCEPT ![i] = 0]
  /\ extRel' = [extRel EXCEPT ![i] = "idle"]
  /\ hist' = [hist EXCEPT ![i] = NoHist]
  /\ UNCHANGED <<now, failures, rows, LOCK_ID>>

\* Something of instance i is due now: a step in flight or a timer.
Busy(i) ==
  /\ pc[i] # "dead"
  /\ \/ pc[i] \notin {"idle", "failed"}
     \/ extRel[i] \in {"deleting", "shutting"}
     \/ \E d \in timers[i] : d <= now
     \/ cleanupTimer[i] # NoTimer /\ cleanupTimer[i] <= now

Tick ==
  /\ now < MaxTime
  /\ \A i \in Instances : ~Busy(i)
  /\ now' = now + 1
  /\ UNCHANGED <<failures, rows, txn, LOCK_ID, pc, isLeader, renewalTimer,
                 timers, cleanupTimer, cleanupPeriod, inFlight, extRel, hist>>

Next ==
  \/ Tick
  \/ \E i \in Instances :
       \/ CreateLockTableIfNotExists(i)
       \/ StartCleanupJob(i)
       \/ CleanupExpiredLeases(i)
       \/ RenewalTimerFires(i)
       \/ Connect(i)
       \/ StartTransaction(i)
       \/ UpsertLease(i)
       \/ ReadBack(i)
       \/ CommitTransaction(i)
       \/ RollbackTransaction(i)
       \/ ReleaseDelete(i)
       \/ QueryRunnerRelease(i)
       \/ Release(i)
       \/ ReleaseDeleted(i)
       \/ Crash(i)

Spec == Init /\ [][Next]_vars

\* The same instances left alone: the host calls neither release() nor
\* shutdown() and no process dies.
NextQuiet ==
  \/ Tick
  \/ \E i \in Instances :
       \/ CreateLockTableIfNotExists(i)
       \/ StartCleanupJob(i)
       \/ CleanupExpiredLeases(i)
       \/ RenewalTimerFires(i)
       \/ Connect(i)
       \/ StartTransaction(i)
       \/ UpsertLease(i)
       \/ ReadBack(i)
       \/ CommitTransaction(i)
       \/ RollbackTransaction(i)
       \/ ReleaseDelete(i)
       \/ QueryRunnerRelease(i)

SpecQuiet == Init /\ [][NextQuiet]_vars

\* Instances whose host may call shutdown(); no process dies.
NextShutdown ==
  \/ NextQuiet
  \/ \E i \in Instances :
       \/ Shutdown(i)
       \/ ShutdownDeleted(i)

SpecShutdown == Init /\ [][NextShutdown]_vars

\* Two instances configured with different lock identifiers, on one table.
DistinctLockIds == [i \in Instances |-> IF i = "a" THEN DefaultLockId ELSE DefaultLockId + 1]

InitLocks ==
  /\ now = 0
  /\ failures = 0
  /\ rows = {}
  /\ txn = [i \in Instances |-> {}]
  /\ LOCK_ID = DistinctLockIds
  /\ pc = [i \in Instances |-> "createTable"]
  /\ isLeader = [i \in Instances |-> FALSE]
  /\ renewalTimer = [i \in Instances |-> NoTimer]
  /\ timers = [i \in Instances |-> {}]
  /\ cleanupTimer = [i \in Instances |-> NoTimer]
  /\ cleanupPeriod = [i \in Instances |-> 0]
  /\ inFlight = [i \in Instances |-> 0]
  /\ extRel = [i \in Instances |-> "idle"]
  /\ hist = [i \in Instances |-> NoHist]

\* release() runs where tryAcquireLease calls it; no process dies.
SpecLocks == InitLocks /\ [][NextQuiet]_vars

\* Instances that may die and whose host never calls release(): a timer that
\* is due fires, a store operation that was issued completes, and time goes
\* on.  Nothing obliges a process to die.
ProgramStep(i) ==
  \/ CreateLockTableIfNotExists(i)
  \/ StartCleanupJob(i)
  \/ CleanupExpiredLeases(i)
  \/ RenewalTimerFires(i)
  \/ Connect(i)
  \/ StartTransaction(i)
  \/ UpsertLease(i)
  \/ ReadBack(i)
  \/ CommitTransaction(i)
  \/ RollbackTransaction(i)
  \/ ReleaseDelete(i)
  \/ QueryRunnerRelease(i)

NextFailover ==
  \/ NextQuiet
  \/ \E i \in Instances : Crash(i)

Fairness ==
  /\ WF_vars(Tick)
  /\ \A i \in Instances : WF_vars(ProgramStep(i))

SpecFailover == Init /\ [][NextFailover]_vars /\ Fairness

\* ------------------------------------ the revision in src/src/migration.ts
\* The engine embedded in migration.ts renews with an UPDATE first and falls
\* back to INSERT ... ON CONFLICT DO NOTHING, a read and an upsert on (id).
\* Its table has the primary key (id) alone.

\* setInterval(..., 60_000 + jitter) of startCleanupJob, in seconds.
MigCleanInterval == 60

\* A row left in the table by an instance that runs no more; expired.
StaleLease ==
  [id |-> DefaultLockId, leaderId |-> "gone", expiresAt |-> 0, createdAt |-> 0 - 1]

InitMigration ==
  /\ now = 0
  /\ failures = 0
  /\ rows \in {{}, {StaleLease}}
  /\ txn = [i \in Instances |-> {}]
  /\ LOCK_ID = [i \in Instances |-> DefaultLockId]
  /\ pc = [i \in Instances |-> "createTable"]
  /\ isLeader = [i \in Instances |-> FALSE]
  /\ renewalTimer = [i \in Instances |-> NoTimer]
  /\ timers = [i \in Instances |-> {}]
  /\ cleanupTimer = [i \in Instances |-> NoTimer]
  /\ cleanupPeriod = [i \in Instances |-> 0]
  /\ inFlight = [i \in Instances |-> 0]
  /\ extRel = [i \in Instances |-> "idle"]
  /\ hist = [i \in Instances |-> NoHist]

\* commitTransaction on a table whose primary key is (id).
MigCommitted(i) ==
  LET new == {w.row : w \in txn[i]}
  IN  {r \in rows : ~\E n \in new : n.id = r.id} \cup new

\* The row written by upsert(LeaderLease, {id, leaderId, expiresAt}, ["id"]):
\* ON CONFLICT (id) DO UPDATE overwrites leaderId and expiresAt of the row.
MigUpsertRow(i) ==
  IF FindOne(i) = {}
  THEN [kind |-> "insert", row |-> NewLease(i)]
  ELSE LET old == CHOOSE r \in FindOne(i) : TRUE
       IN  [kind |-> "update",
            row |-> [old EXCEPT !.leaderId = i,
                                !.expiresAt = now + baseLeaseDuration]]

\* handleLeadershipAcquired: the flag, then scheduleLeaseRenewal():
\* clearTimeout(this.renewalTimer); this.renewalTimer = setTimeout(...).
MigHandleLeadershipAcquired(i) ==
  /\ isLeader' = [isLeader EXCEPT ![i] = TRUE]
  /\ \E j \in Jitters :
       LET interval == baseRenewalInterval + j
       IN  /\ timers' = [timers EXCEPT ![i] = Cleared(i) \cup {now + interval}]
           /\ renewalTimer' = [renewalTimer EXCEPT ![i] = now + interval]

\* initialize: await createLockTableIfNotExists(); startCleanupJob();
\* tryAcquireLeaseWithJitter().  The reclaimer's first run is 60 s away.
MigInitialize(i) ==
  /\ pc[i] = "createTable"
  /\ \E ok \in Outcomes :
       /\ failures' = Failed(ok)
       /\ IF ok
          THEN \E j \in Jitters :
                 /\ pc' = [pc EXCEPT ![i] = "idle"]
                 /\ cleanupPeriod' = [cleanupPeriod EXCEPT ![i] = MigCleanInterval + j]
                 /\ cleanupTimer' = [cleanupTimer EXCEPT ![i] = now + MigCleanInterval + j]
                 /\ timers' = [timers EXCEPT ![i] = @ \cup {now + baseRenewalInterval + j}]
          ELSE /\ pc' = [pc EXCEPT ![i] = "failed"]
               /\ UNCHANGED <<cleanupPeriod, cleanupTimer, timers>>
  /\ UNCHANGED <<now, rows, txn, LOCK_ID, isLeader, renewalTimer, inFlight,
                 extRel, hist>>

\* A setTimeout(() => this.tryAcquireLease(), ...) fires.
MigTimerFires(i) ==
  /\ pc[i] \notin {"createTable", "failed", "dead"}
  /\ \E d \in timers[i] :
       /\ d <= now
       /\ timers' = [timers EXCEPT ![i] = @ \ {d}]
       /\ renewalTimer' = [renewalTimer EXCEPT ![i] = IF @ = d THEN NoTimer ELSE @]
  /\ inFlight' = [inFlight EXCEPT ![i] = @ + 1]
  /\ IF pc[i] = "idle"
     THEN /\ pc' = [pc EXCEPT ![i] = "connect"]
          /\ hist' = [hist EXCEPT ![i] = [NoHist EXCEPT !.wasLeader = isLeader[i]]]
     ELSE UNCHANGED <<pc, hist>>
  /\ UNCHANGED <<now, failures, rows, txn, LOCK_ID, isLeader, cleanupTimer,
                 cleanupPeriod, extRel>>

\* await queryRunner.connect(), before the try block.
MigConnect(i) ==
  /\ pc[i] = "connect"
  /\ \E ok \in Outcomes :
       /\ failures' = Failed(ok)
       /\ IF ok
          THEN /\ pc' = [pc EXCEPT ![i] = "startTransaction"]
               /\ UNCHANGED <<inFlight, hist>>
          ELSE AttemptEnds(i)
  /\ UNCHANGED <<now, rows, txn, LOCK_ID, isLeader, renewalTimer, timers,
                 cleanupTimer, cleanupPeriod, extRel>>

\* await queryRunner.startTransaction(), before the try block.
MigStartTransaction(i) ==
  /\ pc[i] = "startTransaction"
  /\ \E ok \in Outcomes :
       /\ failures' = Failed(ok)
       /\ IF ok
          THEN /\ pc' = [pc EXCEPT ![i] = "update"]
               /\ UNCHANGED <<inFlight, hist>>
          ELSE AttemptEnds(i)
  /\ UNCHANGED <<now, rows, txn, LOCK_ID, isLeader, renewalTimer, timers,
                 cleanupTimer, cleanupPeriod, extRel>>

\* try: update(LeaderLease, {id, leaderId}, {expiresAt: NOW() + lease}).  It
\* waits while another open transaction has written the row it matches.
MigUpdate(i) ==
  /\ pc[i] = "update"
  /\ LET mine == {r \in RowsOf(LOCK_ID[i]) : r.leaderId = i}
     IN  \E ok \in Outcomes :
           /\ ok => ~(mine # {} /\ LockedByOther(i, LOCK_ID[i]))
           /\ failures' = Failed(ok)
           /\ IF ~ok
              THEN /\ hist' = [hist EXCEPT ![i].failed = TRUE]
                   /\ txn' = txn
                   /\ pc' = [pc EXCEPT ![i] = "rollback"]
              ELSE /\ hist' = [hist EXCEPT ![i].saw = Saw(i)]
                   /\ IF mine # {}
                      THEN LET old == CHOOSE r \in mine : TRUE
                           IN  /\ txn' = [txn EXCEPT ![i] =
                                     {[kind |-> "update",
                                       row |-> [old EXCEPT !.expiresAt = now + baseLeaseDuration]]}]
                               /\ pc' = [pc EXCEPT ![i] = "commitRenewal"]
                      ELSE /\ txn' = txn
                           /\ pc' = [pc EXCEPT ![i] = "insert"]
  /\ UNCHANGED <<now, rows, LOCK_ID, isLeader, renewalTimer, timers,
                 cleanupTimer, cleanupPeriod, inFlight, extRel>>

\* if (renewalResult.affected > 0): await commitTransaction();
\* handleLeadershipAcquired(); return.
MigCommitRenewal(i) ==
  /\ pc[i] = "commitRenewal"
  /\ \E ok \in Outcomes :
       /\ failures' = Failed(ok)
       /\ IF ok
          THEN /\ rows' = MigCommitted(i)
               /\ txn' = [txn EXCEPT ![i] = {}]
               /\ MigHandleLeadershipAcquired(i)
               /\ pc' = [pc EXCEPT ![i] = "finally"]
               /\ hist' = hist
          ELSE /\ UNCHANGED <<rows, txn, isLeader, renewalTimer, timers>>
               /\ pc' = [pc EXCEPT ![i] = "rollback"]
               /\ hist' = [hist EXCEPT ![i].failed = TRUE]
  /\ UNCHANGED <<now, LOCK_ID, cleanupTimer, cleanupPeriod, inFlight, extRel>>

\* insert().values(newLease).orIgnore(): ON CONFLICT DO NOTHING.  It waits
\* for an open transaction that has written a row of this id.
MigInsert(i) ==
  /\ pc[i] = "insert"
  /\ \E ok \in Outcomes :
       /\ ok => ~LockedByOther(i, LOCK_ID[i])
       /\ failures' = Failed(ok)
       /\ IF ~ok
          THEN /\ hist' = [hist EXCEPT ![i].failed = TRUE]
               /\ txn' = txn
               /\ pc' = [pc EXCEPT ![i] = "rollback"]
          ELSE /\ hist' = hist
               /\ txn' = IF RowsOf(LOCK_ID[i]) = {}
                         THEN [txn EXCEPT ![i] = {[kind |-> "insert", row |-> NewLease(i)]}]
                         ELSE txn
               /\ pc' = [pc EXCEPT ![i] = "findOne"]
  /\ UNCHANGED <<now, rows, LOCK_ID, isLeader, renewalTimer, timers,
                 cleanupTimer, cleanupPeriod, inFlight, extRel>>

\* currentLeader = await findOne({ where: { id } }); then the test
\* !currentLeader || currentLeader.expiresAt < new Date().
MigFindOne(i) ==
  /\ pc[i] = "findOne"
  /\ \E ok \in Outcomes :
       /\ failures' = Failed(ok)
       /\ IF ~ok
          THEN /\ hist' = [hist EXCEPT ![i].failed = TRUE]
               /\ pc' = [pc EXCEPT ![i] = "rollback"]
          ELSE /\ hist' = hist
               /\ pc' = [pc EXCEPT ![i] =
                           IF FindOne(i) = {} \/ \E r \in FindOne(i) : r.expiresAt < now
                           THEN "upsertById"
                           ELSE "commit"]
  /\ UNCHANGED <<now, rows, txn, LOCK_ID, isLeader, renewalTimer, timers,
                 cleanupTimer, cleanupPeriod, inFlight, extRel>>

\* await upsert(LeaderLease, {...}, ["id"]); this.handleLeadershipAcquired().
\* The statement waits for an open transaction that has written the row.
MigUpsert(i) ==
  /\ pc[i] = "upsertById"
  /\ \E ok \in Outcomes :
       /\ ok => ~LockedByOther(i, LOCK_ID[i])
       /\ failures' = Failed(ok)
       /\ IF ~ok
          THEN /\ hist' = [hist EXCEPT ![i].failed = TRUE]
               /\ pc' = [pc EXCEPT ![i] = "rollback"]
               /\ UNCHANGED <<txn, isLeader, renewalTimer, timers>>
          ELSE /\ hist' = hist
               /\ txn' = [txn EXCEPT ![i] = {MigUpsertRow(i)}]
               /\ MigHandleLeadershipAcquired(i)
               /\ pc' = [pc EXCEPT ![i] = "commit"]
  /\ UNCHANGED <<now, rows, LOCK_ID, cleanupTimer, cleanupPeriod, inFlight,
                 extRel>>

\* await queryRunner.commitTransaction() at the end of the try block.
MigCommit(i) ==
  /\ pc[i] = "commit"
  /\ \E ok \in Outcomes :
       /\ failures' = Failed(ok)
       /\ IF ok
          THEN /\ rows' = MigCommitted(i)
               /\ txn' = [txn EXCEPT ![i] = {}]
               /\ pc' = [pc EXCEPT ![i] = "finally"]
               /\ hist' = hist
          ELSE /\ UNCHANGED <<rows, txn>>
               /\ pc' = [pc EXCEPT ![i] = "rollback"]
               /\ hist' = [hist EXCEPT ![i].failed = TRUE]
  /\ UNCHANGED <<now, LOCK_ID, isLeader, renewalTimer, timers, cleanupTimer,
                 cleanupPeriod, inFlight, extRel>>

\* catch: await queryRunner.rollbackTransaction(); the log.  Nothing else.
MigRollback(i) ==
  /\ pc[i] = "rollback"
  /\ txn' = [txn EXCEPT ![i] = {}]
  /\ \E ok \in Outcomes :
       /\ failures' = Failed(ok)
       /\ pc' = [pc EXCEPT ![i] = IF ok THEN "finally" ELSE "finallyThrow"]
  /\ UNCHANGED <<now, rows, LOCK_ID, isLeader, renewalTimer, timers,
                 cleanupTimer, cleanupPeriod, inFlight, extRel, hist>>

\* finally: await queryRunner.release();
\* if (!this.isLeader) this.tryAcquireLeaseWithJitter(), a setTimeout whose
\* handle is not kept.
MigFinally(i) ==
  /\ pc[i] \in {"finally", "finallyThrow"}
  /\ \E ok \in Outcomes :
       /\ failures' = Failed(ok)
       /\ IF ok /\ ~isLeader[i]
          THEN \E j \in Jitters :
                 timers' = [timers EXCEPT ![i] = @ \cup {now + baseRenewalInterval + j}]
          ELSE timers' = timers
  /\ AttemptEnds(i)
  /\ UNCHANGED <<now, rows, txn, LOCK_ID, isLeader, renewalTimer,
                 cleanupTimer, cleanupPeriod, extRel>>

NextMigration ==
  \/ Tick
  \/ \E i \in Instances :
       \/ MigInitialize(i)
       \/ MigTimerFires(i)
       \/ MigConnect(i)
       \/ MigStartTransaction(i)
       \/ MigUpdate(i)
       \/ MigCommitRenewal(i)
       \/ MigInsert(i)
       \/ MigFindOne(i)
       \/ MigUpsert(i)
       \/ MigCommit(i)
       \/ MigRollback(i)
       \/ MigFinally(i)

SpecMigration == InitMigration /\ [][NextMigration]_vars

\* ------------------------------------------------------------ properties

InAttempt == {"connect", "startTransaction", "upsert", "findOne", "commit",
              "rollback", "tryRelease", "catchRelease", "finally", "finallyThrow"}

Live(i) == pc[i] \notin {"dead", "failed"}

\* The attempt loop of i is running: an attempt is in flight or its timer is pending.
Scheduled(i) == Live(i) /\ (pc[i] \in InAttempt \/ timers[i] # {})

\* This step ends an attempt of i (tryAcquireLease returns or throws).
Ends(i) == pc[i] \in InAttempt /\ pc'[i] = "idle"

\* The attempt that this step ends met a failed store operation.
MetFailure(i) == Ends(i) /\ (hist[i].failed \/ failures' # failures)

\* The attempt that this step ends leaves tryAcquireLease by an error.
Threw(i) == Ends(i) /\ (pc[i] # "finally" \/ failures' # failures)

OwnedBy(i, table) == \E r \in table : r.id = LOCK_ID[i] /\ r.leaderId = i

\* C1 -- mutual exclusion: no two live instances of one lock identifier, each
\* with its attempt loop running and no store operation ever having failed,
\* are leader at once.
C1_MutualExclusion ==
  \A i, j \in Instances :
    (i # j /\ LOCK_ID[i] = LOCK_ID[j] /\ Scheduled(i) /\ Scheduled(j) /\ failures = 0)
      => ~(isLeader[i] /\ isLeader[j])

\* C2 -- fencing on renewal: an attempt begun as leader whose write met the
\* row of another instance never ends with isLeader still true.
C2_FencingOnRenewal ==
  [][\A i \in Instances :
       (Ends(i) /\ hist[i].wasLeader /\ hist[i].saw \in {"otherValid", "otherExpired"})
         => ~isLeader'[i]]_vars

\* C3 -- bounded failover: once the row of a dead leader is older than
\* leaseDuration + renewalInterval + jitterRange since its last renewal, and a
\* competitor has its loop running and is through with what is due now, and no
\* store operation has ever failed, some live instance is leader.
C3_BoundedFailover ==
  \A r \in rows : \A b \in Instances :
    ( /\ pc[r.leaderId] = "dead"
      /\ b # r.leaderId /\ LOCK_ID[b] = r.id
      /\ Scheduled(b) /\ ~Busy(b)
      /\ failures = 0
      /\ now > (r.expiresAt - baseLeaseDuration)
                 + baseLeaseDuration + baseRenewalInterval + jitterRange )
      => \E c \in Instances : Live(c) /\ LOCK_ID[c] = r.id /\ isLeader[c]

\* C4 -- takeover of an expired lease: an attempt whose upsert met a row of
\* another instance with expiresAt in the past, no store operation ever
\* having failed, ends with the row rewritten to this instance and isLeader
\* true.
C4_TakeoverOfExpiredLease ==
  [][\A i \in Instances :
       (Ends(i) /\ hist[i].saw = "otherExpired" /\ failures' = 0)
         => (isLeader'[i] /\ OwnedBy(i, rows'))]_vars

\* C5 -- an attempt ends with isLeader true only if its upsert met no
\* unexpired row of another instance; and expiresAt of an existing row is
\* extended only by the transaction of the row's leaderId.
C5_LeaderOnlyIfUnowned ==
  [][/\ \A i \in Instances :
          (Ends(i) /\ isLeader'[i]) => hist[i].saw # "otherValid"
     /\ \A r \in rows : \A q \in rows' :
          (q.id = r.id /\ q.leaderId = r.leaderId /\ q.expiresAt > r.expiresAt)
            => \E i \in Instances :
                 i = r.leaderId /\ pc[i] = "commit" /\ pc'[i] = "finally"]_vars

\* C6 -- failure demotes: an attempt begun as leader that met a store
\* failure never ends with isLeader true.
C6_FailureDemotes ==
  [][\A i \in Instances :
       (MetFailure(i) /\ hist[i].wasLeader) => ~isLeader'[i]]_vars

\* C7 -- retry on the next tick: when an attempt ends after a rejected write
\* or a store failure, the renewal timer is pending.
C7_RetryOnNextTick ==
  [][\A i \in Instances :
       (Ends(i) /\ (MetFailure(i) \/ hist[i].saw \in {"otherValid", "otherExpired"}))
         => timers'[i] # {}]_vars

\* C8 -- no failure escapes an attempt: tryAcquireLease never ends by
\* throwing, whichever store operation failed.
C8_NoFailureEscapes ==
  [][\A i \in Instances : Ends(i) => ~Threw(i)]_vars

\* C9 -- isLeader turns true only in a step after which the instance's
\* transaction is committed: no write is pending and the row is its own.
C9_LeaderOnlyAfterCommit ==
  [][\A i \in Instances :
       (~isLeader[i] /\ isLeader'[i]) => (txn'[i] = {} /\ OwnedBy(i, rows'))]_vars

\* C10 -- attempts of one instance are sequential: at most one is in flight,
\* at most one renewal timer is pending, and no timer is pending while an
\* attempt is in flight.
C10_SequentialAttempts ==
  \A i \in Instances :
    /\ inFlight[i] <= 1
    /\ Cardinality(timers[i]) <= 1
    /\ inFlight[i] > 0 => timers[i] = {}

\* A renewal attempt (not the first) is in flight while a release() called
\* from outside awaits its delete.
C10_Witness ==
  \E i \in Instances :
    /\ pc[i] = "commit" /\ hist[i].wasLeader /\ inFlight[i] = 1
    /\ extRel[i] = "deleting"

ReleaseDeletes(i) ==
  /\ pc'[i] # "dead"
  /\ \/ pc[i] \in {"tryRelease", "catchRelease"} /\ pc'[i] # pc[i]
     \/ extRel[i] \in {"deleting", "shutting"} /\ extRel'[i] # extRel[i]

\* C12 -- scoped release: the delete of a release() of i, the one i performs
\* after a rejected or failed attempt included, removes no row but that of
\* i's lock identifier and i's leaderId; every other row is left as it was.
C12_ScopedRelease ==
  [][\A i \in Instances :
       ReleaseDeletes(i)
         => /\ \A r \in rows : (r.id # LOCK_ID[i] \/ r.leaderId # i) => r \in rows'
            /\ rows' \subseteq rows]_vars

\* The release() that followed a rejected renewal has run its delete, and the
\* row of the other instance is still in the table.
C12_Witness ==
  \E i \in Instances :
    /\ pc[i] = "finally" /\ hist[i].wasLeader /\ ~hist[i].failed
    /\ hist[i].saw = "otherValid" /\ ~isLeader[i]
    /\ \E r \in rows : r.id = LOCK_ID[i] /\ r.leaderId # i

\* C13 -- release postcondition: when the delete of a release() called on a
\* leader succeeds and release() returns, isLeader is false, the table holds
\* no row of this lock identifier and this instance, and no renewal timer is
\* pending, an attempt of the same instance being in flight or not.
C13_ReleasePostcondition ==
  [][\A i \in Instances :
       (extRel[i] = "deleting" /\ extRel'[i] = "idle" /\ pc'[i] # "dead"
          /\ failures' = failures)
         => (~isLeader'[i] /\ ~OwnedBy(i, rows') /\ timers'[i] = {})]_vars

\* shutdown() of i has returned.
ShutDown(i) == extRel[i] \in {"down", "noop"}

\* C14 -- shutdown stops everything: once shutdown() has returned, from a
\* leader or from a follower, the instance starts no further attempt and no
\* further reclaimer run, and isLeader is false from then on.
C14_ShutdownStopsEverything ==
  [][\A i \in Instances :
       (ShutDown(i) /\ ShutDown(i)')
         => /\ inFlight'[i] <= inFlight[i]
            /\ cleanupTimer'[i] = cleanupTimer[i]
            /\ ~isLeader'[i]]_vars

\* C15 -- startup attempt: when initialize() returns (create() resolves) the
\* first attempt has run: an instance that started against an empty table,
\* no store operation having failed, is leader and owns the row.
C15_StartupAttempt ==
  [][\A i \in Instances :
       (pc[i] = "initCleanup" /\ pc'[i] = "idle" /\ rows = {} /\ failures' = 0
          /\ \A j \in Instances : txn[j] = {})
         => (isLeader'[i] /\ OwnedBy(i, rows'))]_vars

\* This step is a reclaimer run of i: the first one, awaited by initialize(),
\* or one started by the interval.
CleanupRuns(i) ==
  \/ pc[i] = "initCleanup" /\ pc'[i] = "idle"
  \/ pc'[i] = pc[i] /\ cleanupTimer'[i] # cleanupTimer[i]

\* C16 -- reclaimer safety: a reclaimer run removes a row only if the row's
\* expiresAt is earlier than now minus the 5-second grace period, and writes
\* no row.
C16_ReclaimerSafety ==
  [][(\E i \in Instances : CleanupRuns(i))
       => /\ \A r \in rows \ rows' : r.expiresAt < now - GraceSeconds
          /\ rows' \subseteq rows]_vars

\* No store operation has failed; the only live instance had its write
\* rejected by the expired row of a dead leader, and within the same attempt
\* its reclaimer has run and the row is gone.
C16_Witness ==
  \E i \in Instances :
    /\ pc[i] \in {"rollback", "finally"} /\ hist[i].saw = "otherExpired"
    /\ rows = {}
    /\ cleanupTimer[i] = now + cleanupPeriod[i]
    /\ failures = 0
    /\ \A j \in Instances \ {i} : pc[j] = "dead"

\* C17 -- reclaimer isolation: while the first reclaimer run of initialize()
\* has not completed the renewal timer is armed all the same; and a reclaimer
\* run that fails changes neither the table nor isLeader nor the renewal
\* timer, and does not make initialize() fail.
C17_ReclaimerIsolation ==
  [][\A i \in Instances :
       /\ pc'[i] = "initCleanup" => timers'[i] # {}
       /\ (CleanupRuns(i) /\ failures' # failures)
            => /\ UNCHANGED <<rows, isLeader>>
               /\ pc'[i] # "failed"
               /\ timers[i] \subseteq timers'[i]]_vars

\* C18 -- race on first acquisition: when the attempts of two followers of one
\* lock identifier run at the same time, no store operation having failed,
\* and the write of one of them met an empty table, then at the end of both
\* attempts that one is leader, the other is not (its write was rejected by
\* the winner's row), and the table holds one row of the lock identifier,
\* owned by the winner.
C18_RaceOnFirstAcquisition ==
  \A i, j \in Instances :
    ( /\ i # j /\ LOCK_ID[i] = LOCK_ID[j]
      /\ pc[i] = "finally" /\ pc[j] = "finally"
      /\ ~hist[i].wasLeader /\ ~hist[j].wasLeader
      /\ hist[i].saw = "absent"
      /\ failures = 0 )
      => /\ isLeader[i] /\ ~isLeader[j]
         /\ hist[j].saw = "otherValid"
         /\ Cardinality(RowsOf(LOCK_ID[i])) = 1
         /\ \A r \in RowsOf(LOCK_ID[i]) : r.leaderId = i

\* Both first attempts are about to end: one has committed its insert, the
\* other has rolled back after the primary-key violation.
C18_Witness ==
  \E i, j \in Instances :
    /\ i # j /\ pc[i] = "finally" /\ pc[j] = "finally"
    /\ hist[i].saw = "absent" /\ hist[j].saw = "otherValid"
    /\ ~hist[i].wasLeader /\ ~hist[j].wasLeader
    /\ isLeader[i] /\ failures = 0

\* The attempt in flight of i, begun as follower, had its write rejected by
\* the row of another instance, or had its write fail while another instance
\* owned the row.
Rejected(i) ==
  /\ pc[i] \in InAttempt /\ ~hist[i].wasLeader
  /\ \/ hist[i].saw \in {"otherValid", "otherExpired"}
     \/ /\ hist[i].failed /\ hist[i].saw = "none"
        /\ \E r \in rows : r.id = LOCK_ID[i] /\ r.leaderId # i

C20_RowInvariant ==
  [][/\ \A r \in rows' : r.expiresAt > r.createdAt
     /\ \A r \in rows : \A q \in rows' :
          (q.id = r.id /\ q.leaderId = r.leaderId /\ q # r)
            => /\ pc[r.leaderId] = "commit" /\ pc'[r.leaderId] = "finally"
               /\ q.expiresAt = now + baseLeaseDuration
               /\ q.expiresAt >= r.expiresAt
               /\ q.createdAt = r.createdAt]_vars

\* A committed row that has been renewed: it expires later than one lease
\* duration after its creation.
C20_Witness ==
  \E r \in rows :
    /\ r.expiresAt > r.createdAt + baseLeaseDuration
    /\ isLeader[r.leaderId] /\ pc[r.leaderId] = "finally"

\* C21: lock identifiers partition independent leases.  Under SpecLocks the
\* two instances are configured with different lock identifiers.  No step of
\* an attempt of instance i (the release() it calls included) creates,
\* modifies or deletes a row whose id differs from LOCK_ID[i]; and the
\* conditional write of i goes through whenever the table holds no row of
\* another instance under LOCK_ID[i], whatever rows other identifiers have.
C21_LockIdsPartition ==
  [][\A i \in Instances :
       /\ (pc[i] \in InAttempt /\ pc'[i] # pc[i])
            => {r \in rows' : r.id # LOCK_ID[i]} = {r \in rows : r.id # LOCK_ID[i]}
       /\ (/\ pc[i] = "upsert"
           /\ pc'[i] # "upsert"
           /\ failures' = failures
           /\ \A r \in rows : r.id = LOCK_ID[i] => r.leaderId = i)
            => (pc'[i] = "findOne" /\ txn'[i] # {})]_vars

\* Both instances are leaders at the same time, each owning the row of its
\* own lock identifier.
C21_Witness ==
  /\ LOCK_ID["a"] # LOCK_ID["b"]
  /\ isLeader["a"] /\ isLeader["b"]
  /\ OwnedBy("a", rows) /\ OwnedBy("b", rows)

\* C22: tolerance of one missed renewal.  Leader i started a renewal while the
\* table held its own row (written at most one renewal interval earlier, so
\* not yet expired: leaseDuration > renewalInterval), and a store operation of
\* that renewal failed.  While that attempt is still running, hence before the
\* row's expiresAt has passed, no other instance of the same lock identifier
\* becomes leader.
C22_MissedRenewalTolerated ==
  [][\A j \in Instances :
       (~isLeader[j] /\ isLeader'[j])
         => ~\E i \in Instances \ {j} :
               /\ LOCK_ID[i] = LOCK_ID[j]
               /\ pc[i] \in InAttempt
               /\ hist[i].wasLeader
               /\ hist[i].saw = "mine"
               /\ hist[i].failed]_vars

\* The row of a dead leader that the next reclaimer run of a live instance b of
\* the same lock identifier will delete within the modelled time, in a store
\* that fails no more.
CrashedLeaderRow(r, b) ==
  /\ pc[r.leaderId] = "dead"
  /\ b # r.leaderId
  /\ LOCK_ID[b] = r.id
  /\ Live(b)
  /\ cleanupTimer[b] # NoTimer
  /\ cleanupTimer[b] > r.expiresAt + GraceSeconds
  /\ cleanupTimer[b] < MaxTime
  /\ failures = MaxFailures

\* C23: eventual failover.  Under weak fairness of timers and store
\* operations and with no further store failure, once a leader has crashed
\* without releasing while another instance keeps running, eventually a live
\* instance has isLeader = TRUE (unless every other instance dies as well).
C23_EventualFailover ==
  (\E r \in rows : \E b \in Instances : CrashedLeaderRow(r, b))
    ~> (\/ \E c \in Instances : Live(c) /\ isLeader[c]
        \/ \A c \in Instances : ~Live(c))

C25_ReleaseEndsParticipation ==
  [][\A i \in Instances :
       /\ (pc[i] = "idle" /\ isLeader[i] /\ extRel[i] = "idle" /\ extRel'[i] = "deleting")
            => (pc'[i] = "idle" /\ ~isLeader'[i] /\ timers'[i] = {})
       /\ (pc[i] = "idle" /\ ~isLeader[i] /\ timers[i] = {})
            => (/\ pc'[i] \in {"idle", "dead"}
                /\ ~isLeader'[i]
                /\ timers'[i] = {}
                /\ inFlight'[i] = 0)
       /\ (Ends(i) /\ pc[i] = "finally" /\ failures' = failures
             /\ hist[i].wasLeader /\ ~isLeader[i])
            => timers'[i] # {}]_vars

\* An instance that was released from outside while it was idle: no store
\* operation has ever failed, its release() has returned, and it has neither a
\* timer nor an attempt.
C25_Witness ==
  \E i \in Instances :
    /\ pc[i] = "idle"
    /\ extRel[i] = "idle"
    /\ ~isLeader[i]
    /\ timers[i] = {}
    /\ failures = 0
    /\ now > baseRenewalInterval

\* Where tryAcquireLease of the migration.ts revision can be suspended.
MigInAttempt == {"connect", "startTransaction", "update", "commitRenewal",
                 "insert", "findOne", "upsertById", "commit", "rollback",
                 "finally", "finallyThrow"}

\* The step in which an attempt of that revision returns or throws.
MigEnds(i) == pc[i] \in MigInAttempt /\ pc'[i] = "idle"

\* C26: fencing in the update-first-then-insert revision.  An instance whose
\* flag was set when its attempt began and whose attempt met the unexpired row
\* of another instance has isLeader = FALSE when that attempt completes, no
\* store operation having ever failed, and a further attempt is scheduled.
C26_MigFencing ==
  [][\A i \in Instances :
       (/\ MigEnds(i)
        /\ hist[i].wasLeader
        /\ hist[i].saw = "otherValid"
        /\ failures' = 0)
         => (~isLeader'[i] /\ timers'[i] # {})]_vars

\* C27: race on an expired row in the update-first-then-insert revision.
\* When two followers have both run their attempt against the same expired
\* row and both have left the try block without a failure, at most one of them
\* has isLeader = TRUE, and the one that has owns the row.
C27_MigRaceOnExpiredRow ==
  \A i \in Instances : \A j \in Instances \ {i} :
    (/\ LOCK_ID[i] = LOCK_ID[j]
     /\ pc[i] = "finally" /\ pc[j] = "finally"
     /\ ~hist[i].wasLeader /\ ~hist[j].wasLeader
     /\ hist[i].saw = "otherExpired" /\ hist[j].saw = "otherExpired"
     /\ ~hist[i].failed /\ ~hist[j].failed)
      => (/\ ~(isLeader[i] /\ isLeader[j])
          /\ isLeader[i] => OwnedBy(i, rows))

\* C28: failure handling in the update-first-then-insert revision.  When the
\* attempt of a leader has failed with a store error and has been rolled back,
\* at the end of the attempt isLeader is FALSE and a further attempt is
\* scheduled (so the instance is not left with the flag set and no renewal
\* pending).
C28_MigFailureHandling ==
  [][\A i \in Instances :
       (/\ MigEnds(i)
        /\ pc[i] = "finally"
        /\ hist[i].wasLeader
        /\ hist[i].failed
        /\ failures' = failures)
         => (~isLeader'[i] /\ timers'[i] # {})]_vars

====
